---- MODULE Spec2Model ----
(***************************************************************************)
(* Model of the DepthAI C ABI wrapper (depthai-sys/wrapper/wrapper.cpp):   *)
(*   - device lifetime management: dai_device_new / _clone / _delete /     *)
(*     _close / _is_closed over the process-wide default device;           *)
(*   - the link / unlink protocol with heuristic port resolution:          *)
(*     dai_node_link / dai_node_unlink;                                    *)
(*   - the process-wide error channel last_error.                          *)
(* Every C function is one action, or, where other threads can observe an  *)
(* intermediate state (dai_device_new, dai_device_delete), one action per  *)
(* atomic step of the function.                                            *)
(***************************************************************************)
EXTENDS Integers, Sequences, FiniteSets, TLC

\* ------------------------------------------------------------------ bounds
NumThreads == 2     \* caller threads
MaxBoxes == 3       \* heap-allocated shared_ptr boxes alive at one time
MaxDevs == 2        \* dai::Device objects constructed over a run
MaxAttached == 1    \* physical devices attached to the host
MaxPorts == 2       \* ports per node side
MaxConns == 2       \* realized connections between the two nodes

Threads == 1..NumThreads
Boxes == 1..MaxBoxes
Devs == 1..MaxDevs

NULL == "NULL"      \* a null pointer argument (nullptr)

\* ------------------------------------------------------------------ state
VARIABLES
    last_error,         \* static std::string last_error
    \* device lifetime
    box,                \* box[b]: device a live handle box refers to, 0 = not allocated
    devState,           \* devState[d]: "none" | "open" | "closed"
    g_default_device,   \* weak_ptr to the default device, 0 = empty
    g_device_mutex,     \* 0 = free, else the thread holding it
    attached,           \* number of physical devices attached
    pc,                 \* pc[t]: position of thread t inside its current call
    arg,                \* arg[t]: handle box passed to the current call
    existing,           \* existing[t]: strong reference held by dai_device_new's local
    exc,                \* exc[t]: e.what() of the exception dai_device_new is unwinding with
    ret,                \* ret[t]: handle returned by the last finished call (0 = nullptr)
    seen,               \* seen[t]: what dai_get_last_error gave the caller after a failure
    lastOp,             \* lastOp[t]: the device call thread t issued last
    \* graph
    outs,               \* outputs of the source node, in _dai_collect_outputs order
    ins,                \* inputs of the destination node, in _dai_collect_inputs order
    children,           \* children[c]: inputs of the c-th child node of the destination (getNodeMap order)
    compat,             \* pairs <<o, i>> for which outs[o].canConnect(input i)
    conns,              \* realized connections, pairs <<o, i>>; i > Len(ins) is an input of a child
    call,               \* the last link/unlink call: its filters and outcome
    \* queue and messages
    payload,            \* payload[p]: "none" | "alive" | "freed", the dai::ADatatype objects
    kind,               \* kind[p]: dynamic type of payload p
    queue,              \* payloads the dai::MessageQueue holds, oldest first
    qclosed,            \* the dai::MessageQueue was closed
    mbox,               \* mbox[b]: heap box `new std::shared_ptr<T>`: payload and static type, or NoBox
    held,               \* message handles the caller owns
    arr,                \* the _DaiDatatypeArray the caller holds: [live, elems]
    wpc,                \* "idle" | "waiting": a dai_queue_get blocked inside MessageQueue::get()
    mcall,              \* the last queue/message call and what it returned
    \* callbacks, queue and pipeline lifetime
    regs,               \* regs[id]: the callback the MessageQueue holds under id: [st, drop]
    nextCbId,           \* the id MessageQueue::addCallback hands out next
    drops,              \* drops[id]: how often drop(ctx) of registration id has run
    qhandle,            \* the caller holds the DaiDataQueue box
    pipeline,           \* the dai::Pipeline (owner of the output and its queue) exists
    numNodes,           \* nodes created in the pipeline; their ids are 0 .. numNodes - 1
    defaultDevice       \* the device the dai::Pipeline holds a shared reference to, 0 = none

devVars == <<box, devState, g_default_device, g_device_mutex, attached, pc, arg, existing, exc, ret, seen, lastOp>>
linkVars == <<outs, ins, children, compat, conns, call>>
msgVars == <<payload, kind, queue, qclosed, mbox, held, arr, wpc, mcall>>
msgVarsButCall == <<payload, kind, queue, qclosed, mbox, held, arr, wpc>>
cbVars == <<regs, nextCbId, drops, qhandle, pipeline, numNodes, defaultDevice>>
vars == <<last_error, devVars, linkVars, msgVars, cbVars>>

\* ------------------------------------------------------------ error channel
ErrNoDevices == "No available devices"
ErrInUse(n) == "No available devices (" \o ToString(n) \o " connected, but in use)"
ErrNewPrefix == "dai_device_new failed: "
ErrCloneNull == "dai_device_clone: null device"
ErrCloseNull == "dai_device_close: null device"
ErrIsClosedNull == "dai_device_is_closed: null device"
Unread == "unread"    \* the caller has not consulted the channel since its call

\* ---------------------------------------------------------- device lifetime
LiveBoxes == {b \in Boxes : box[b] # 0}
BoxesOf(d) == {b \in Boxes : box[b] = d}

\* std::shared_ptr::use_count(): every box, every local strong reference and
\* the reference of the pipeline.
use_count_HandlesOnly(d) == Cardinality(BoxesOf(d)) + Cardinality({t \in Threads : existing[t] = d})
use_count(d) ==
    Cardinality(BoxesOf(d)) + Cardinality({t \in Threads : existing[t] = d}) + (IF defaultDevice = d THEN 1 ELSE 0)

\* `new std::shared_ptr<dai::Device>(...)`: the box the allocator hands out.
NewBox == CHOOSE b \in Boxes : box[b] = 0 /\ \A c \in Boxes : box[c] = 0 => b <= c
NewDev == CHOOSE d \in Devs : devState[d] = "none" /\ \A e \in Devs : devState[e] = "none" => d <= e

\* Calls that allocate a box and have not returned yet.
Allocating == {t \in Threads : pc[t] \in {"new_lock", "new_crit", "new_check", "new_create"}}
CanAllocate == Cardinality(LiveBoxes) + Cardinality(Allocating) < MaxBoxes

\* Handles a caller may pass: live and not being released by another call.
Usable == {b \in LiveBoxes : \A t \in Threads : arg[t] # b}

\* Physical devices no dai::Device of this process holds open.
FreeDevices == attached.free - Cardinality({d \in Devs : devState[d] = "open"})

\* select_first_device_info: some state's enumeration is non-empty.
select_first_device_info == FreeDevices > 0

\* dai::DeviceBase::getAllAvailableDevices().size() once the selection failed.
numConnected == attached.busy

\* dev->use_count() == 1
LastRef_AnyRef(d) == use_count(d) >= 1
LastRef(d) == use_count(d) = 1

\* !existing->isClosed(): reuse the default device.
ReuseDefault_Never(d) == FALSE
ReuseDefault_Always(d) == TRUE
ReuseDefault(d) == devState[d] = "open"

\* dai_device_is_closed on a non-null handle.
dai_device_is_closed(h) == devState[box[h]] # "open"

\* Device state after the strong references in boxes bx and locals ex remain:
\* a device nobody references is destroyed, which releases its connection.
Destroyed(bx, ex, d) ==
    devState[d] # "none" /\ (\A b \in Boxes : bx[b] # d) /\ (\A t \in Threads : ex[t] # d) /\ defaultDevice # d
Reap(bx, ex, ds) == [d \in Devs |-> IF Destroyed(bx, ex, d) THEN "none" ELSE ds[d]]
\* An expired weak_ptr locks like an empty one.
Expire(bx, ex) == IF g_default_device # 0 /\ Destroyed(bx, ex, g_default_device) THEN 0 ELSE g_default_device

\* dai_clear_last_error, then on to the lock_guard.
dai_device_new_clear(t) ==
    /\ pc[t] = "idle"
    /\ CanAllocate
    /\ last_error' = ""
    /\ pc' = [pc EXCEPT ![t] = "new_lock"]
    /\ ret' = [ret EXCEPT ![t] = 0]
    /\ seen' = [seen EXCEPT ![t] = Unread]
    /\ lastOp' = [lastOp EXCEPT ![t] = "new"]
    /\ UNCHANGED <<box, devState, g_default_device, g_device_mutex, attached, arg, existing, exc, linkVars, msgVars, cbVars>>

\* std::lock_guard<std::mutex> lock(g_device_mutex)
dai_device_new_lock(t) ==
    /\ pc[t] = "new_lock"
    /\ g_device_mutex = 0
    /\ g_device_mutex' = t
    /\ pc' = [pc EXCEPT ![t] = "new_crit"]
    /\ UNCHANGED <<last_error, box, devState, g_default_device, attached, arg, existing, exc, ret, seen, lastOp, linkVars, msgVars, cbVars>>

dai_device_new_weak_Skipped(t) ==
    /\ pc[t] = "new_crit"
    /\ pc' = [pc EXCEPT ![t] = "new_create"]
    /\ UNCHANGED <<last_error, box, devState, g_default_device, g_device_mutex, attached, arg, existing, exc, ret, seen, lastOp, linkVars, msgVars, cbVars>>

\* auto existing = g_default_device.lock()
dai_device_new_weak(t) ==
    /\ pc[t] = "new_crit"
    /\ IF g_default_device # 0 /\ use_count(g_default_device) > 0
         THEN /\ existing' = [existing EXCEPT ![t] = g_default_device]
              /\ pc' = [pc EXCEPT ![t] = "new_check"]
         ELSE /\ existing' = existing
              /\ pc' = [pc EXCEPT ![t] = "new_create"]
    /\ UNCHANGED <<last_error, box, devState, g_default_device, g_device_mutex, attached, arg, exc, ret, seen, lastOp, linkVars, msgVars, cbVars>>

\* if(!existing->isClosed()) return new shared_ptr(existing); the local
\* `existing` is released on both ways out of the if statement.
dai_device_new_reuse(t) ==
    /\ pc[t] = "new_check"
    /\ LET d == existing[t]
           ex == [existing EXCEPT ![t] = 0]
       IN IF ReuseDefault(d)
            THEN /\ box' = [box EXCEPT ![NewBox] = d]
                 /\ ret' = [ret EXCEPT ![t] = NewBox]
                 /\ existing' = ex
                 /\ g_device_mutex' = 0
                 /\ pc' = [pc EXCEPT ![t] = "idle"]
                 /\ UNCHANGED <<devState, g_default_device>>
            ELSE /\ existing' = ex
                 /\ devState' = Reap(box, ex, devState)
                 /\ g_default_device' = Expire(box, ex)
                 /\ pc' = [pc EXCEPT ![t] = "new_create"]
                 /\ UNCHANGED <<box, ret, g_device_mutex>>
    /\ UNCHANGED <<last_error, attached, arg, exc, seen, lastOp, linkVars, msgVars, cbVars>>

\* select_first_device_info, then either make_shared<dai::Device>(info) and the
\* update of g_default_device, or the throw that unwinds the lock_guard.
dai_device_new_create(t) ==
    /\ pc[t] = "new_create"
    /\ IF select_first_device_info
         THEN /\ \E d \in Devs : devState[d] = "none"
              /\ devState' = [devState EXCEPT ![NewDev] = "open"]
              /\ g_default_device' = NewDev
              /\ box' = [box EXCEPT ![NewBox] = NewDev]
              /\ ret' = [ret EXCEPT ![t] = NewBox]
              /\ pc' = [pc EXCEPT ![t] = "idle"]
              /\ exc' = exc
         ELSE /\ exc' = [exc EXCEPT ![t] = IF numConnected > 0 THEN ErrInUse(numConnected) ELSE ErrNoDevices]
              /\ pc' = [pc EXCEPT ![t] = "new_fail"]
              /\ UNCHANGED <<devState, g_default_device, box, ret>>
    /\ g_device_mutex' = 0
    /\ UNCHANGED <<last_error, attached, arg, existing, seen, lastOp, linkVars, msgVars, cbVars>>

\* catch(const std::exception& e): last_error = "dai_device_new failed: " + e.what()
dai_device_new_catch(t) ==
    /\ pc[t] = "new_fail"
    /\ last_error' = ErrNewPrefix \o exc[t]
    /\ exc' = [exc EXCEPT ![t] = ""]
    /\ ret' = [ret EXCEPT ![t] = 0]
    /\ pc' = [pc EXCEPT ![t] = "new_null"]
    /\ UNCHANGED <<box, devState, g_default_device, g_device_mutex, attached, arg, existing, seen, lastOp, linkVars, msgVars, cbVars>>

\* The caller of a dai_device_new that returned nullptr reads the channel.
dai_get_last_error(t) ==
    /\ pc[t] = "new_null"
    /\ seen' = [seen EXCEPT ![t] = last_error]
    /\ pc' = [pc EXCEPT ![t] = "idle"]
    /\ UNCHANGED <<last_error, box, devState, g_default_device, g_device_mutex, attached, arg, existing, exc, ret, lastOp, linkVars, msgVars, cbVars>>

dai_device_clone(t) ==
    /\ pc[t] = "idle"
    /\ \E h \in Usable \cup {0} :
         IF h = 0
           THEN /\ last_error' = ErrCloneNull
                /\ ret' = [ret EXCEPT ![t] = 0]
                /\ box' = box
           ELSE /\ CanAllocate
                /\ box' = [box EXCEPT ![NewBox] = box[h]]
                /\ ret' = [ret EXCEPT ![t] = NewBox]
                /\ last_error' = last_error
    /\ seen' = [seen EXCEPT ![t] = Unread]
    /\ lastOp' = [lastOp EXCEPT ![t] = "clone"]
    /\ UNCHANGED <<devState, g_default_device, g_device_mutex, attached, pc, arg, existing, exc, linkVars, msgVars, cbVars>>

dai_device_close(t) ==
    /\ pc[t] = "idle"
    /\ \E h \in Usable \cup {0} :
         IF h = 0
           THEN /\ last_error' = ErrCloseNull
                /\ devState' = devState
           ELSE /\ devState' = [devState EXCEPT ![box[h]] = "closed"]
                /\ last_error' = last_error
    /\ ret' = [ret EXCEPT ![t] = 0]
    /\ seen' = [seen EXCEPT ![t] = Unread]
    /\ lastOp' = [lastOp EXCEPT ![t] = "close"]
    /\ UNCHANGED <<box, g_default_device, g_device_mutex, attached, pc, arg, existing, exc, linkVars, msgVars, cbVars>>

\* dai_device_delete up to `dev->use_count() == 1`
dai_device_delete_count(t) ==
    /\ pc[t] = "idle"
    /\ \E h \in Usable :
         /\ arg' = [arg EXCEPT ![t] = h]
         /\ pc' = [pc EXCEPT ![t] = IF LastRef(box[h]) THEN "del_isclosed" ELSE "del_free"]
    /\ ret' = [ret EXCEPT ![t] = 0]
    /\ seen' = [seen EXCEPT ![t] = Unread]
    /\ lastOp' = [lastOp EXCEPT ![t] = "delete"]
    /\ UNCHANGED <<last_error, box, devState, g_default_device, g_device_mutex, attached, existing, exc, linkVars, msgVars, cbVars>>

\* ... && !(*dev)->isClosed()
dai_device_delete_isclosed(t) ==
    /\ pc[t] = "del_isclosed"
    /\ pc' = [pc EXCEPT ![t] = IF devState[box[arg[t]]] = "open" THEN "del_close" ELSE "del_free"]
    /\ UNCHANGED <<last_error, box, devState, g_default_device, g_device_mutex, attached, arg, existing, exc, ret, seen, lastOp, linkVars, msgVars, cbVars>>

\* (*dev)->close()
dai_device_delete_close(t) ==
    /\ pc[t] = "del_close"
    /\ devState' = [devState EXCEPT ![box[arg[t]]] = "closed"]
    /\ pc' = [pc EXCEPT ![t] = "del_free"]
    /\ UNCHANGED <<last_error, box, g_default_device, g_device_mutex, attached, arg, existing, exc, ret, seen, lastOp, linkVars, msgVars, cbVars>>

\* delete dev
dai_device_delete_free(t) ==
    /\ pc[t] = "del_free"
    /\ LET bx == [box EXCEPT ![arg[t]] = 0]
       IN /\ box' = bx
          /\ devState' = Reap(bx, existing, devState)
          /\ g_default_device' = Expire(bx, existing)
    /\ arg' = [arg EXCEPT ![t] = 0]
    /\ pc' = [pc EXCEPT ![t] = "idle"]
    /\ UNCHANGED <<last_error, g_device_mutex, attached, existing, exc, ret, seen, lastOp, linkVars, msgVars, cbVars>>

DevStep(t) ==
    \/ dai_device_new_clear(t)
    \/ dai_device_new_lock(t)
    \/ dai_device_new_weak(t)
    \/ dai_device_new_reuse(t)
    \/ dai_device_new_create(t)
    \/ dai_device_new_catch(t)
    \/ dai_get_last_error(t)
    \/ dai_device_clone(t)
    \/ dai_device_close(t)
    \/ dai_device_delete_count(t)
    \/ dai_device_delete_isclosed(t)
    \/ dai_device_delete_close(t)
    \/ dai_device_delete_free(t)

NoGraph == <<>>
NoCall == [op |-> "none"]

MaxPayloads == 2    \* messages the device produces over a run
MaxMsgBoxes == 2    \* message handle boxes alive at one time
MaxQueue == 2       \* messages a queue holds

Payloads == 1..MaxPayloads
MBoxes == 1..MaxMsgBoxes
NoBox == [pay |-> 0, view |-> "none"]
NoArray == [live |-> FALSE, elems |-> <<>>]
NoMsgCall == [op |-> "none"]
NoKind == [type |-> "none", color |-> FALSE]

\* An open, empty queue; no message, box or array exists.
MaxCallbacks == 2   \* registrations a queue is given
MaxNodes == 2       \* nodes a pipeline is given
CbIds == 0..(MaxCallbacks - 1)
NoReg == [st |-> "none", drop |-> FALSE]

\* A pipeline whose output has a queue, the caller holding the queue handle;
\* no callback registered, no node created.
IdleCallbacks ==
    /\ regs = [id \in CbIds |-> NoReg]
    /\ nextCbId = 0
    /\ drops = [id \in CbIds |-> 0]
    /\ qhandle = TRUE
    /\ pipeline = TRUE
    /\ numNodes = 0
    /\ defaultDevice = 0

IdleQueue ==
    /\ payload = [p \in Payloads |-> "none"]
    /\ kind = [p \in Payloads |-> NoKind]
    /\ queue = <<>>
    /\ qclosed = FALSE
    /\ mbox = [b \in MBoxes |-> NoBox]
    /\ held = {}
    /\ arr = NoArray
    /\ wpc = "idle"
    /\ mcall = NoMsgCall

InitDev ==
    /\ last_error = ""
    /\ box = [b \in Boxes |-> 0]
    /\ devState = [d \in Devs |-> "none"]
    /\ g_default_device = 0
    /\ g_device_mutex = 0
    /\ \E f \in 0..MaxAttached : \E b \in 0..(MaxAttached - f) : attached = [free |-> f, busy |-> b]
    /\ pc = [t \in Threads |-> "idle"]
    /\ arg = [t \in Threads |-> 0]
    /\ existing = [t \in Threads |-> 0]
    /\ exc = [t \in Threads |-> ""]
    /\ ret = [t \in Threads |-> 0]
    /\ seen = [t \in Threads |-> Unread]
    /\ lastOp = [t \in Threads |-> "none"]
    /\ outs = NoGraph
    /\ ins = NoGraph
    /\ children = NoGraph
    /\ compat = {}
    /\ conns = {}
    /\ call = NoCall
    /\ IdleQueue
    /\ IdleCallbacks

\* Calls issued from any thread.
NextDev == \E t \in Threads : DevStep(t)
SpecDev == InitDev /\ [][NextDev]_vars

\* Calls issued from one thread only.
NextDevSeq == DevStep(1)
SpecDevSeq == InitDev /\ [][NextDevSeq]_vars

\* ------------------------------------------------------------- graph model
\* Ports a node may expose: a name and a group ("" = ungrouped).
OutUniverse == {[name |-> "video", group |-> ""], [name |-> "raw", group |-> ""]}
InUniverse == {[name |-> "in", group |-> ""], [name |-> "in", group |-> "g"]}

\* Filter arguments of dai_node_link / dai_node_unlink: a group or a name is
\* absent (NULL) or given; the output named is the one that scores lowest.
GroupFilters == {NULL, "g"}
OutNameFilters == {NULL, "raw"}
InNameFilters == {NULL, "in"}
Filters == [og : GroupFilters, on : OutNameFilters, ig : GroupFilters, in : InNameFilters]

\* Port lists without repetition, at most MaxPorts long.
PortLists(U) == {q \in UNION {[1..n -> U] : n \in 1..MaxPorts} : \A j, k \in 1..Len(q) : q[j] = q[k] => j = k}

NoPort == 0
NoPair == <<0, 0>>
IntMin == -2147483647 - 1

\* s == nullptr || *s == '\0'
_dai_cstr_empty_Always(s) == TRUE
_dai_cstr_empty(s) == s = NULL \/ s = ""

\* name.find(needle) != std::string::npos
has(name, needle) == \E k \in 1..(Len(name) - Len(needle) + 1) : SubSeq(name, k, k + Len(needle) - 1) = needle

Add(c, v) == IF c THEN v ELSE 0

_dai_score_port_name(name, isOutput) ==
    Add(name = "out", 100)
    + (IF isOutput
         THEN Add(has(name, "video"), 90) + Add(has(name, "preview"), 85) + Add(has(name, "isp"), 80)
              + Add(has(name, "passthrough"), 40) + Add(has(name, "rgbd"), 70) + Add(has(name, "pcl"), 60)
              + Add(has(name, "depth"), 60) + Add(has(name, "raw"), -30) + Add(has(name, "meta"), -20)
              + Add(has(name, "metadata"), -20) + Add(has(name, "control"), -10)
         ELSE Add(has(name, "input"), 80) + Add(has(name, "inColor"), 70) + Add(has(name, "inDepth"), 70)
              + Add(name = "in", 60) + Add(name = "inSync", -10))

_dai_group_matches(portGroup, filterGroup) == filterGroup = NULL \/ portGroup = filterGroup

\* if(score > bestScore)
Better_Lower(score, bestScore) == score < bestScore
Better_OrEqual(score, bestScore) == score >= bestScore
Better(score, bestScore) == score > bestScore

\* The loops `for(...) { ...; if(score > bestScore) { bestScore = score; best = x; } }`
\* over the candidates cands (records [item, score]) in iteration order.
RECURSIVE BestFrom(_, _, _, _)
BestFrom(cands, k, best, bestScore) ==
    IF k > Len(cands) THEN best
    ELSE IF Better(cands[k].score, bestScore)
           THEN BestFrom(cands, k + 1, cands[k].item, cands[k].score)
           ELSE BestFrom(cands, k + 1, best, bestScore)

\* Node::getOutputRef(group, name) / getOutputRef(name): exact lookup, the
\* one-argument form looks among the ungrouped ports.
PortRef(ports, group, name) ==
    LET g == IF group = NULL THEN "" ELSE group
        hit == {k \in 1..Len(ports) : ports[k].group = g /\ ports[k].name = name}
    IN IF hit = {} THEN NoPort ELSE CHOOSE k \in hit : TRUE
getOutputRef(group, name) == PortRef(outs, group, name)
getInputRef(group, name) == PortRef(ins, group, name)

canConnect(o, i) == <<o, i>> \in compat

\* _dai_score_port_name over the names of the model's ports.
OutNameScore == [n \in {p.name : p \in OutUniverse} |-> _dai_score_port_name(n, TRUE)]
InNameScore == [n \in {p.name : p \in InUniverse} |-> _dai_score_port_name(n, FALSE)]

\* score of a candidate port: its name score, `if(o->getGroup().empty()) score += 2`
OutScore(o) == OutNameScore[outs[o].name] + Add(outs[o].group = "", 2)
InScore(i) == InNameScore[ins[i].name] + Add(ins[i].group = "", 2)

Indices(ports) == [k \in 1..Len(ports) |-> k]

_dai_pick_output_for_input(input, out_group) ==
    LET ok(o) == _dai_group_matches(outs[o].group, out_group) /\ canConnect(o, input)
        c == SelectSeq(Indices(outs), ok)
    IN BestFrom([k \in 1..Len(c) |-> [item |-> c[k], score |-> OutScore(c[k])]], 1, NoPort, IntMin)

_dai_pick_input_for_output(output, in_group) ==
    LET ok(i) == _dai_group_matches(ins[i].group, in_group) /\ canConnect(output, i)
        c == SelectSeq(Indices(ins), ok)
    IN BestFrom([k \in 1..Len(c) |-> [item |-> c[k], score |-> InScore(c[k])]], 1, NoPort, IntMin)

\* All pairs, outputs in the outer loop and inputs in the inner loop.
PairSeq == [k \in 1..(Len(outs) * Len(ins)) |-> <<((k - 1) \div Len(ins)) + 1, ((k - 1) % Len(ins)) + 1>>]

\* The same loop, skipping the pairs that are already connected.
BestPair_SkipLinked(out_group, in_group) ==
    LET ok(p) == /\ _dai_group_matches(outs[p[1]].group, out_group)
                 /\ _dai_group_matches(ins[p[2]].group, in_group)
                 /\ canConnect(p[1], p[2])
                 /\ p \notin conns
        c == SelectSeq(PairSeq, ok)
    IN BestFrom([k \in 1..Len(c) |-> [item |-> c[k], score |-> OutScore(c[k][1]) + InScore(c[k][2])]], 1, NoPair, IntMin)

\* The `!outSpecified && !inSpecified` loop of dai_node_link.
BestPair(out_group, in_group) ==
    LET ok(p) == /\ _dai_group_matches(outs[p[1]].group, out_group)
                 /\ _dai_group_matches(ins[p[2]].group, in_group)
                 /\ canConnect(p[1], p[2])
        c == SelectSeq(PairSeq, ok)
    IN BestFrom([k \in 1..Len(c) |-> [item |-> c[k], score |-> OutScore(c[k][1]) + InScore(c[k][2])]], 1, NoPair, IntMin)

ErrLinkOutput == "dai_node_link: output not found"
ErrLinkInput == "dai_node_link: input not found"
ErrLinkNoPorts == "dai_node_link: no compatible ports found"
ErrLinkPrefix == "dai_node_link failed: "
ErrUnlinkOutput == "dai_node_unlink: output not found"
ErrUnlinkInput == "dai_node_unlink: input not found"
ErrUnlinkNoMatch == "dai_node_unlink: no matching connection found"
ErrUnlinkPrefix == "dai_node_unlink failed: "
\* what() of the exceptions of dai::Node::Output::link / unlink
ExcCannotLink == "cannot link"
ExcAlreadyLinked == "already linked"
ExcNotLinked == "not linked"

\* dai_node_link up to `out->link(*input)`: the pair it resolves, or the error.
LinkResolve(f) ==
    LET outSpecified == ~_dai_cstr_empty(f.on)
        inSpecified == ~_dai_cstr_empty(f.in)
        out == IF outSpecified THEN getOutputRef(f.og, f.on) ELSE NoPort
        input == IF inSpecified THEN getInputRef(f.ig, f.in) ELSE NoPort
    IN IF outSpecified /\ out = NoPort THEN [err |-> ErrLinkOutput, sel |-> NoPair]
       ELSE IF inSpecified /\ input = NoPort THEN [err |-> ErrLinkInput, sel |-> NoPair]
       ELSE LET sel == IF ~outSpecified /\ ~inSpecified THEN BestPair(f.og, f.ig)
                       ELSE IF ~outSpecified THEN <<_dai_pick_output_for_input(input, f.og), input>>
                       ELSE IF ~inSpecified THEN <<out, _dai_pick_input_for_output(out, f.ig)>>
                       ELSE <<out, input>>
            IN IF sel[1] = NoPort \/ sel[2] = NoPort
                 THEN [err |-> ErrLinkNoPorts, sel |-> NoPair]
                 ELSE [err |-> "", sel |-> sel]

\* dai::Node::Output::link as the wrapper calls it: the exception it throws, "" if none.
Output_link(p) ==
    IF ~canConnect(p[1], p[2]) THEN ExcCannotLink
    ELSE IF p \in conns THEN ExcAlreadyLinked
    ELSE ""

\* dai::Node::Output::unlink as the wrapper calls it.
Output_unlink(p) == IF p \notin conns THEN ExcNotLinked ELSE ""

dai_node_link(f) ==
    LET r == LinkResolve(f)
        e == IF r.err # "" THEN r.err
             ELSE IF Output_link(r.sel) # "" THEN ErrLinkPrefix \o Output_link(r.sel)
             ELSE ""
    IN /\ conns' = IF e = "" THEN conns \cup {r.sel} ELSE conns
       /\ Cardinality(conns') <= MaxConns
       /\ last_error' = IF e = "" THEN last_error ELSE e
       /\ call' = [op |-> "link", f |-> f, ok |-> (e = ""), sel |-> r.sel]
       /\ UNCHANGED <<outs, ins, children, compat, devVars, msgVars, cbVars>>

\* Connections the search loop of dai_node_unlink considers.
UnlinkCandidates(f, out) ==
    LET outSpecified == ~_dai_cstr_empty(f.on)
        inSpecified == ~_dai_cstr_empty(f.in)
    IN {p \in conns :
          /\ p[2] <= Len(ins)      \* if(inNode.get() != toNode) continue
          /\ outSpecified => p[1] = out
          /\ _dai_group_matches(outs[p[1]].group, f.og)
          /\ _dai_group_matches(ins[p[2]].group, f.ig)
          /\ inSpecified => ins[p[2]].name = f.in}

UnlinkScore(p) == OutNameScore[outs[p[1]].name] + InNameScore[ins[p[2]].name]

\* The pairs the search loop may end with: outputs are visited in port order,
\* the connections of one output in the order of o->getConnections(), which
\* is not the port order; the first pair with the highest score is kept.
UnlinkBest(f, out) ==
    LET c == UnlinkCandidates(f, out)
        top == {p \in c : \A q \in c : ~Better(UnlinkScore(q), UnlinkScore(p))}
    IN IF c = {} THEN {NoPair}
       ELSE {p \in top : \A q \in top : p[1] <= q[1]}

dai_node_unlink(f) ==
    LET outSpecified == ~_dai_cstr_empty(f.on)
        inSpecified == ~_dai_cstr_empty(f.in)
        out == IF outSpecified THEN getOutputRef(f.og, f.on) ELSE NoPort
        input == IF inSpecified THEN getInputRef(f.ig, f.in) ELSE NoPort
    IN \E sel \in (IF outSpecified /\ inSpecified THEN {<<out, input>>} ELSE UnlinkBest(f, out)) :
         LET e == IF outSpecified /\ out = NoPort THEN ErrUnlinkOutput
                  ELSE IF inSpecified /\ input = NoPort THEN ErrUnlinkInput
                  ELSE IF sel[1] = NoPort \/ sel[2] = NoPort THEN ErrUnlinkNoMatch
                  ELSE IF Output_unlink(sel) # "" THEN ErrUnlinkPrefix \o Output_unlink(sel)
                  ELSE ""
         IN /\ conns' = IF e = "" THEN conns \ {sel} ELSE conns
            /\ last_error' = IF e = "" THEN last_error ELSE e
            /\ call' = [op |-> "unlink", f |-> f, ok |-> (e = ""), sel |-> IF e = "" THEN sel ELSE NoPair]
            /\ UNCHANGED <<outs, ins, children, compat, devVars, msgVars, cbVars>>

InitLink ==
    /\ last_error = ""
    /\ box = [b \in Boxes |-> 0]
    /\ devState = [d \in Devs |-> "none"]
    /\ g_default_device = 0
    /\ g_device_mutex = 0
    /\ attached = [free |-> 0, busy |-> 0]
    /\ pc = [t \in Threads |-> "idle"]
    /\ arg = [t \in Threads |-> 0]
    /\ existing = [t \in Threads |-> 0]
    /\ exc = [t \in Threads |-> ""]
    /\ ret = [t \in Threads |-> 0]
    /\ seen = [t \in Threads |-> Unread]
    /\ lastOp = [t \in Threads |-> "none"]
    /\ outs \in PortLists(OutUniverse)
    /\ ins \in PortLists(InUniverse)
    /\ children = NoGraph
    /\ compat \in SUBSET ((1..Len(outs)) \X (1..Len(ins)))
    /\ conns = {}
    /\ call = NoCall
    /\ IdleQueue
    /\ IdleCallbacks

NextLink ==
    \/ \E f \in Filters : dai_node_link(f)
    \/ \E f \in Filters : dai_node_unlink(f)
SpecLink == InitLink /\ [][NextLink]_vars

\* ------------------------------------------------------- device claims
NoDevicesAttached == attached.free = 0 /\ attached.busy = 0
OnlyNewCalls == \A t \in Threads : lastOp[t] \in {"none", "new"}

\* C1: under every interleaving of dai_device_new, dai_device_clone and
\* dai_device_delete on different threads, the close() inside
\* dai_device_delete never runs while another live handle box refers to the
\* same device.
C1_NoCloseWhileShared ==
    [][\A t \in Threads :
          dai_device_delete_close(t) => Cardinality(BoxesOf(box[arg[t]])) = 1]_vars

\* C2: with calls from one thread, dai_device_delete only reaches its close()
\* for the last outstanding handle; releasing the last handle leaves the
\* device closed (closed before the box is freed, and not open afterwards);
\* releasing any other handle leaves the state of the device as it was.
C2_DeleteClosesOnlyLast ==
    /\ [](pc[1] \in {"del_isclosed", "del_close"} => Cardinality(BoxesOf(box[arg[1]])) = 1)
    /\ [][dai_device_delete_free(1) =>
            LET d == box[arg[1]]
            IN IF Cardinality(BoxesOf(d)) = 1
                 THEN devState[d] = "closed" /\ devState'[d] # "open"
                 ELSE devState'[d] = devState[d]]_vars

\* The last handle of a device is about to be freed and its device is closed.
C2_Witness ==
    /\ pc[1] = "del_free"
    /\ Cardinality(BoxesOf(box[arg[1]])) = 1
    /\ devState[box[arg[1]]] = "closed"
    /\ lastOp[1] = "delete"

\* A handle to the open default device is outstanding.
DefaultHeld == \E b \in LiveBoxes : box[b] = g_default_device /\ devState[box[b]] = "open"

\* C3: with calls from one thread, a dai_device_new issued while a handle to
\* the open default device is outstanding returns a fresh box on the same
\* device and constructs nothing; a close through one handle is observed by
\* dai_device_is_closed through every handle of that device.
C3_SecondNewShares ==
    /\ [][(pc[1] \in {"new_crit", "new_check"} /\ DefaultHeld) =>
            \/ pc'[1] = "new_check"
            \/ /\ pc'[1] = "idle"
               /\ ret'[1] # 0
               /\ ret'[1] \notin LiveBoxes
               /\ box'[ret'[1]] = g_default_device
               /\ \A b \in LiveBoxes : box'[b] = box[b]
               /\ devState' = devState
               /\ g_default_device' = g_default_device]_vars
    /\ [][\A h \in LiveBoxes :
            (lastOp'[1] = "close" /\ devState[box[h]] = "open" /\ devState'[box[h]] = "closed")
               => \A b \in BoxesOf(box[h]) : dai_device_is_closed(b)']_vars

\* dai_device_new has just returned a second handle to the open default device.
C3_Witness ==
    /\ pc[1] = "idle"
    /\ lastOp[1] = "new"
    /\ ret[1] # 0
    /\ box[ret[1]] = g_default_device
    /\ devState[g_default_device] = "open"
    /\ Cardinality(BoxesOf(g_default_device)) = 2

\* C4: with no device attached and only dai_device_new calls issued, every
\* call returns nullptr, every caller that reads the error channel after its
\* failed call finds the "No available devices" message there, no device is
\* constructed and the default-device slot stays empty.
C4_BothReceiveNoDevice ==
    (NoDevicesAttached /\ OnlyNewCalls) =>
        /\ \A t \in Threads : ret[t] = 0 /\ seen[t] \in {Unread, ErrNewPrefix \o ErrNoDevices}
        /\ \A d \in Devs : devState[d] = "none"
        /\ g_default_device = 0
        /\ LiveBoxes = {}

\* --------------------------------------------------------- linking claims
\* The ports the filters f leave as candidates: the named port where a name
\* is given, the ports of a matching group otherwise.
OutCandidate(o, f) == IF f.on # NULL THEN o = getOutputRef(f.og, f.on) ELSE _dai_group_matches(outs[o].group, f.og)
InCandidate(i, f) == IF f.in # NULL THEN i = getInputRef(f.ig, f.in) ELSE _dai_group_matches(ins[i].group, f.ig)
CandidatePairs(f) == {p \in (1..Len(outs)) \X (1..Len(ins)) : OutCandidate(p[1], f) /\ InCandidate(p[2], f)}
NamedPortsExist(f) ==
    /\ f.on # NULL => getOutputRef(f.og, f.on) # NoPort
    /\ f.in # NULL => getInputRef(f.ig, f.in) # NoPort
GroupOf(g) == IF g = NULL THEN "" ELSE g

\* C5: a successful dai_node_link followed by dai_node_unlink with the same
\* filters leaves the connections that were realized before the link.
C5_LinkUnlinkRoundTrip ==
    [][(call.op = "link" /\ call.ok /\ call'.op = "unlink" /\ call'.f = call.f)
         => conns' = conns \ {call.sel}]_vars

\* C6: a connection realized by dai_node_link with a port name given uses
\* the port of that name (in the given group, ungrouped when none is given).
C6_ExplicitNameWins ==
    (call.op = "link" /\ call.ok) =>
        /\ call.sel \in conns
        /\ call.f.on # NULL =>
              outs[call.sel[1]].name = call.f.on /\ outs[call.sel[1]].group = GroupOf(call.f.og)
        /\ call.f.in # NULL =>
              ins[call.sel[2]].name = call.f.in /\ ins[call.sel[2]].group = GroupOf(call.f.ig)

\* "raw" was named and linked although "video", which scores higher, could
\* have been connected to the same input.
C6_Witness ==
    /\ call.op = "link" /\ call.ok
    /\ call.f.on = "raw" /\ call.f.in = NULL
    /\ \E o \in 1..Len(outs) : outs[o].name = "video" /\ <<o, call.sel[2]>> \in compat

\* C7: dai_node_link realizes compatible connections only, and when no
\* candidate pair is compatible it fails with "no compatible ports found"
\* and realizes nothing, whichever names are given.
C7_OnlyCompatibleLinks ==
    [][call'.op = "link" =>
         /\ (conns' \ conns) \subseteq compat
         /\ (NamedPortsExist(call'.f) /\ CandidatePairs(call'.f) \cap compat = {}) =>
               (~call'.ok /\ conns' = conns /\ last_error' = ErrLinkNoPorts)]_vars

\* C8: dai_node_unlink with no realized connection fails with "no matching
\* connection found" and leaves the connections unchanged, for every
\* combination of filters whose named ports exist.
C8_UnlinkNothing ==
    [][(call'.op = "unlink" /\ conns = {} /\ NamedPortsExist(call'.f)) =>
         (~call'.ok /\ conns' = conns /\ last_error' = ErrUnlinkNoMatch)]_vars

\* C9: two consecutive dai_node_link calls with the same filters and no port
\* names resolve the same pair.
C9_HeuristicDeterministic ==
    [][(call.op = "link" /\ call'.op = "link" /\ call'.f = call.f
          /\ call.f.on = NULL /\ call.f.in = NULL)
         => call'.sel = call.sel]_vars

\* A heuristic link was repeated where there was a choice: it resolved the
\* pair that is already connected.
C9_Witness ==
    /\ call.op = "link" /\ ~call.ok
    /\ call.f.on = NULL /\ call.f.in = NULL
    /\ call.sel \in conns
    /\ Cardinality(CandidatePairs(call.f) \cap compat) >= 2

RawVideoScenario ==
    /\ Len(outs) = 2
    /\ {outs[1], outs[2]} = {[name |-> "raw", group |-> ""], [name |-> "video", group |-> ""]}
    /\ ins = <<[name |-> "in", group |-> ""]>>
    /\ compat = (1..2) \X {1}
NoFilters == [og |-> NULL, on |-> NULL, ig |-> NULL, in |-> NULL]

\* C10: with outputs "raw" and "video", one input "in", all compatible, and
\* no names given, dai_node_link resolves ("video", "in") in either order of
\* the outputs.
C10_VideoBeatsRaw ==
    (call.op = "link" /\ call.f = NoFilters /\ RawVideoScenario) =>
        /\ call.sel # NoPair
        /\ outs[call.sel[1]].name = "video"
        /\ ins[call.sel[2]].name = "in"

\* The link was made with "raw" enumerated before "video".
C10_Witness ==
    /\ call.op = "link" /\ call.ok /\ call.f = NoFilters
    /\ RawVideoScenario
    /\ outs[1].name = "raw"
    /\ conns = {call.sel}

\* ------------------------------------------------------------ child nodes
MaxChildren == 1    \* child nodes of the destination node

\* Index of the input before the first input of child c: connections number
\* the inputs of the destination first, then those of its children in order.
RECURSIVE ChildBase(_)
ChildBase(c) == IF c = 1 THEN Len(ins) ELSE ChildBase(c - 1) + Len(children[c - 1])
NumInputs == ChildBase(Len(children) + 1)

\* The lambda try_find_on_node of dai_output_link on a node with inputs ports.
try_find_on_node(ports, in_group, in_name) ==
    LET grouped == IF in_group # NULL THEN PortRef(ports, in_group, in_name) ELSE NoPort
        plain == PortRef(ports, NULL, in_name)
        mapped == IF in_group = NULL THEN PortRef(ports, "inputs", in_name) ELSE NoPort
    IN IF grouped # NoPort THEN grouped ELSE IF plain # NoPort THEN plain ELSE mapped

\* for(const auto& child : toNode->getNodeMap()) { input = try_find_on_node(child); if(input) break; }
RECURSIVE FindInChildren(_, _, _)
FindInChildren(c, in_group, in_name) ==
    IF c > Len(children) THEN NoPort
    ELSE LET k == try_find_on_node(children[c], in_group, in_name)
         IN IF k # NoPort THEN ChildBase(c) + k ELSE FindInChildren(c + 1, in_group, in_name)

ErrOutputLinkInput == "dai_output_link: input not found"
ErrOutputLinkNoInput == "dai_output_link: no compatible input found"
ErrOutputLinkPrefix == "dai_output_link failed: "

\* dai_output_link(from, to, in_group, in_name) with from the output o.
dai_output_link(o, in_group, in_name) ==
    LET inSpecified == ~_dai_cstr_empty(in_name)
        own == try_find_on_node(ins, in_group, in_name)
        input == IF ~inSpecified THEN _dai_pick_input_for_output(o, in_group)
                 ELSE IF own # NoPort THEN own
                 ELSE FindInChildren(1, in_group, in_name)
        e == IF inSpecified /\ input = NoPort THEN ErrOutputLinkInput
             ELSE IF input = NoPort THEN ErrOutputLinkNoInput
             ELSE IF Output_link(<<o, input>>) # "" THEN ErrOutputLinkPrefix \o Output_link(<<o, input>>)
             ELSE ""
    IN /\ conns' = IF e = "" THEN conns \cup {<<o, input>>} ELSE conns
       /\ Cardinality(conns') <= MaxConns
       /\ last_error' = IF e = "" THEN last_error ELSE e
       /\ call' = [op |-> "output_link", f |-> [og |-> NULL, on |-> NULL, ig |-> in_group, in |-> in_name],
                   ok |-> (e = ""), sel |-> IF input = NoPort THEN NoPair ELSE <<o, input>>]
       /\ UNCHANGED <<outs, ins, children, compat, devVars, msgVars, cbVars>>

\* A destination with child nodes; every output can connect to every input.
InitChild ==
    /\ last_error = ""
    /\ box = [b \in Boxes |-> 0]
    /\ devState = [d \in Devs |-> "none"]
    /\ g_default_device = 0
    /\ g_device_mutex = 0
    /\ attached = [free |-> 0, busy |-> 0]
    /\ pc = [t \in Threads |-> "idle"]
    /\ arg = [t \in Threads |-> 0]
    /\ existing = [t \in Threads |-> 0]
    /\ exc = [t \in Threads |-> ""]
    /\ ret = [t \in Threads |-> 0]
    /\ seen = [t \in Threads |-> Unread]
    /\ lastOp = [t \in Threads |-> "none"]
    /\ outs \in {q \in PortLists(OutUniverse) : Len(q) = 1}
    /\ ins \in PortLists(InUniverse) \cup {NoGraph}
    /\ children \in UNION {[1..n -> PortLists(InUniverse)] : n \in 1..MaxChildren}
    /\ compat = (1..Len(outs)) \X (1..NumInputs)
    /\ conns = {}
    /\ call = NoCall
    /\ IdleQueue
    /\ IdleCallbacks

NextChild ==
    \/ \E f \in Filters : dai_node_link(f)
    \/ \E f \in Filters : dai_node_unlink(f)
    \/ \E o \in 1..Len(outs) : \E g \in GroupFilters : \E n \in InNameFilters : dai_output_link(o, g, n)
SpecChild == InitChild /\ [][NextChild]_vars

\* Some child of the destination has the input the filters f name.
ChildHasNamedInput(f) == \E c \in 1..Len(children) : PortRef(children[c], f.ig, f.in) # NoPort
\* Some child of the destination has an input of the group f asks for.
ChildHasGroupInput(f) == \E c \in 1..Len(children) : \E k \in 1..Len(children[c]) : _dai_group_matches(children[c][k].group, f.ig)

\* C11: when the named input is not on the destination itself but on one of
\* its children, dai_node_link and dai_node_unlink do not fail with "input
\* not found"; when no input of the destination is a candidate but a child
\* has one, a dai_node_link without an input name does not fail with "no
\* compatible ports found".
C11_ChildrenSearched ==
    [][(call'.op \in {"link", "unlink"} /\ NamedPortsExist([call'.f EXCEPT !.in = NULL])) =>
         /\ (call'.f.in # NULL /\ getInputRef(call'.f.ig, call'.f.in) = NoPort /\ ChildHasNamedInput(call'.f))
               => ~(~call'.ok /\ last_error' \in {ErrLinkInput, ErrUnlinkInput})
         /\ (call'.op = "link" /\ call'.f.in = NULL /\ call'.f.og = NULL
                /\ (\A i \in 1..Len(ins) : ~_dai_group_matches(ins[i].group, call'.f.ig))
                /\ ChildHasGroupInput(call'.f))
               => ~(~call'.ok /\ last_error' = ErrLinkNoPorts)]_vars

\* ----------------------------------------------------------- error channel
\* C19: a dai_node_link or dai_node_unlink that succeeds does not leave the
\* message of an earlier failed call in the error channel.
C19_NoStaleError ==
    [][(call'.op \in {"link", "unlink"} /\ call'.ok /\ last_error # "") => last_error' # last_error]_vars

\* ------------------------------------------------------------ closed state
\* C20: with calls from one thread, a device that a handle reports closed is
\* never reported open again through any handle; dai_device_close leaves a
\* device that is not open as it is; the handle a dai_device_new returns
\* refers to an open device.
C20_ClosedIsTerminal ==
    /\ [][\A h \in LiveBoxes : dai_device_is_closed(h) =>
            \A b \in Boxes : box'[b] = box[h] => dai_device_is_closed(b)']_vars
    /\ [][dai_device_close(1) =>
            \A d \in Devs : devState[d] # "open" => devState'[d] = devState[d]]_vars
    /\ [][(pc[1] \in {"new_check", "new_create"} /\ pc'[1] = "idle" /\ ret'[1] # 0)
            => devState'[box'[ret'[1]]] = "open"]_vars

\* A handle to a closed device is outstanding, and dai_device_new has just
\* returned a handle to another, open device.
C20_Witness ==
    /\ pc[1] = "idle"
    /\ lastOp[1] = "new"
    /\ ret[1] # 0
    /\ devState[box[ret[1]]] = "open"
    /\ \E b \in LiveBoxes : devState[box[b]] = "closed"

\* ------------------------------------------------------ queue and messages
\* Dynamic types of the messages the device produces, and the static types
\* the dai_datatype_as_* functions cast to.
\* A dai::PointCloudData carries colour (isColor()) or does not.
Kinds == {[type |-> "ImgFrame", color |-> FALSE],
          [type |-> "PointCloudData", color |-> TRUE],
          [type |-> "PointCloudData", color |-> FALSE]}
Views == {"ImgFrame", "EncodedFrame", "PointCloudData", "RGBDData", "Buffer", "MessageGroup"}
Timeouts == {-1, 0}

\* std::dynamic_pointer_cast<T>(*ptr) succeeds: T is the dynamic type or its base dai::Buffer.
IsA(k, view) == k.type = view \/ view = "Buffer"

\* pcl->getPointsRGB() throws for a cloud without colour
ExcNoColor == "PointCloudData does not contain color data"
ErrAsPointcloudPrefix == "dai_datatype_as_pointcloud failed: "
getPointsRGB_throws(k) == ~k.color

LiveMsgBoxes == {b \in MBoxes : mbox[b] # NoBox}
Generic == {b \in held : mbox[b].view = "ADatatype"}

\* The boxes n successive `new std::shared_ptr<T>(...)` return.
RECURSIVE AllocBoxes(_, _)
AllocBoxes(free, n) ==
    IF n = 0 THEN <<>>
    ELSE LET b == CHOOSE x \in free : \A y \in free : x <= y
         IN <<b>> \o AllocBoxes(free \ {b}, n - 1)
FreeMsgBoxes == MBoxes \ LiveMsgBoxes
NewMsgBox == AllocBoxes(FreeMsgBoxes, 1)[1]

\* use_count of payload p with the boxes mb and the queue q
Owners(p, mb, q) == Cardinality({b \in MBoxes : mb[b].pay = p}) + Cardinality({k \in 1..Len(q) : q[k] = p})

\* ~shared_ptr: a payload is destroyed when its last owner goes away.
Reclaim(mb, q) == [p \in Payloads |-> IF payload[p] = "alive" /\ Owners(p, mb, q) = 0 THEN "freed" ELSE payload[p]]

ExcQueueClosed == "MessageQueue was closed"
ErrGetPrefix == "dai_queue_get failed: "
ErrTryGetPrefix == "dai_queue_try_get failed: "
ErrTryGetAllPrefix == "dai_queue_try_get_all failed: "
ErrGetAllPrefix == "dai_queue_get_all failed: "
ErrCloneNullMsg == "dai_datatype_clone: null msg"
ErrTakeBounds == "dai_datatype_array_take: index out of bounds"

\* Registrations MessageQueue::callCallbacks runs through.
ActiveCallbacks == {id \in CbIds : regs[id].st = "active"}

\* The device delivers a message of kind k to the output queue: every
\* registered callback receives a freshly boxed handle to it (the lambda of
\* dai_queue_add_callback), then the message is queued. callCallbacks holds
\* the mutex of the callback map for all of it.
MessageQueue_push(k) ==
    /\ pipeline
    /\ ~qclosed
    /\ Len(queue) < MaxQueue
    /\ Cardinality(FreeMsgBoxes) >= Cardinality(ActiveCallbacks)
    /\ \E p \in Payloads :
         /\ payload[p] = "none"
         /\ \A r \in Payloads : payload[r] = "none" => p <= r
         /\ payload' = [payload EXCEPT ![p] = "alive"]
         /\ kind' = [kind EXCEPT ![p] = k]
         /\ queue' = Append(queue, p)
         /\ LET boxes == AllocBoxes(FreeMsgBoxes, Cardinality(ActiveCallbacks))
                handles == {boxes[i] : i \in 1..Len(boxes)}
            IN /\ mbox' = [b \in MBoxes |-> IF b \in handles THEN [pay |-> p, view |-> "ADatatype"] ELSE mbox[b]]
               /\ held' = held \cup handles
    /\ mcall' = [op |-> "push", called |-> ActiveCallbacks]
    /\ UNCHANGED <<last_error, qclosed, arr, wpc, devVars, linkVars, cbVars>>

\* `new std::shared_ptr<dai::ADatatype>(std::move(msg))` for the head of the queue.
PopIntoBox(op, timeout_ms) ==
    /\ FreeMsgBoxes # {}
    /\ mbox' = [mbox EXCEPT ![NewMsgBox] = [pay |-> Head(queue), view |-> "ADatatype"]]
    /\ held' = held \cup {NewMsgBox}
    /\ queue' = Tail(queue)
    /\ mcall' = [op |-> op, timeout |-> timeout_ms, ret |-> NewMsgBox]
    /\ UNCHANGED <<last_error, payload>>

\* The call returns nullptr; err is the message it records, "" for none.
ReturnNull(op, timeout_ms, err) ==
    /\ last_error' = IF err = "" THEN last_error ELSE err
    /\ mcall' = [op |-> op, timeout |-> timeout_ms, ret |-> 0]
    /\ UNCHANGED <<payload, queue, mbox, held>>

\* if(timeout_ms < 0) msg = (*ptr)->get(): the call waits without a limit
Blocks_Always(timeout_ms) == TRUE
Blocks(timeout_ms) == timeout_ms < 0

\* dai_queue_get up to its return, or up to the wait inside MessageQueue::get().
dai_queue_get(timeout_ms) ==
    /\ wpc = "idle"
    /\ IF qclosed THEN ReturnNull("get", timeout_ms, ErrGetPrefix \o ExcQueueClosed) /\ wpc' = wpc
       ELSE IF queue # <<>> THEN PopIntoBox("get", timeout_ms) /\ wpc' = wpc
       ELSE IF ~Blocks(timeout_ms) THEN ReturnNull("get", timeout_ms, "") /\ wpc' = wpc
       ELSE /\ wpc' = "waiting"
            /\ mcall' = [op |-> "get_wait", timeout |-> timeout_ms, ret |-> 0]
            /\ UNCHANGED <<last_error, payload, queue, mbox, held>>
    /\ UNCHANGED <<kind, qclosed, arr, devVars, linkVars, cbVars>>

\* close() wakes every waiter
Wakes_OnMessageOnly == queue # <<>>
Wakes == qclosed \/ queue # <<>>

\* The blocked MessageQueue::get() returns or throws, and dai_queue_get with it.
dai_queue_get_wake ==
    /\ wpc = "waiting"
    /\ Wakes
    /\ IF qclosed THEN ReturnNull("get", -1, ErrGetPrefix \o ExcQueueClosed)
       ELSE PopIntoBox("get", -1)
    /\ wpc' = "idle"
    /\ UNCHANGED <<kind, qclosed, arr, devVars, linkVars, cbVars>>

dai_queue_try_get ==
    /\ IF qclosed THEN ReturnNull("try_get", 0, ErrTryGetPrefix \o ExcQueueClosed)
       ELSE IF queue # <<>> THEN PopIntoBox("try_get", 0)
       ELSE ReturnNull("try_get", 0, "")
    /\ UNCHANGED <<kind, qclosed, arr, wpc, devVars, linkVars, cbVars>>

dai_queue_close ==
    /\ qclosed' = TRUE
    /\ mcall' = [op |-> "close"]
    /\ UNCHANGED <<last_error, payload, kind, queue, mbox, held, arr, wpc, devVars, linkVars, cbVars>>

\* `new std::shared_ptr<dai::ADatatype>(*ptr)`: the box dai_datatype_clone returns
CloneBox_Same(b) == b
CloneBox(b) == NewMsgBox

dai_datatype_clone(b) ==
    /\ b \in Generic \cup {0}
    /\ IF b = 0 THEN ReturnNull("clone", 0, ErrCloneNullMsg)
       ELSE IF mbox[b].pay = 0 THEN ReturnNull("clone", 0, "")
       ELSE /\ FreeMsgBoxes # {}
            /\ mbox' = [mbox EXCEPT ![CloneBox(b)] = [pay |-> mbox[b].pay, view |-> "ADatatype"]]
            /\ held' = held \cup {CloneBox(b)}
            /\ mcall' = [op |-> "clone", src |-> b, ret |-> CloneBox(b)]
            /\ UNCHANGED <<last_error, payload, queue>>
    /\ UNCHANGED <<kind, qclosed, arr, wpc, devVars, linkVars, cbVars>>

\* dai_datatype_as_img_frame, _as_encoded_frame, _as_pointcloud, _as_rgbd,
\* _as_buffer, _as_message_group: the cast to view of the message in box b.
\* The pointcloud cast allocates its DaiPointCloudView before it copies the
\* points; when the copy throws the view is never deleted and never returned.
dai_datatype_as(b, view) ==
    /\ b \in Generic
    /\ IF ~IsA(kind[mbox[b].pay], view)
         THEN /\ mcall' = [op |-> "as", src |-> b, view |-> view, ret |-> 0]
              /\ UNCHANGED <<last_error, mbox, held>>
         ELSE /\ FreeMsgBoxes # {}
              /\ mbox' = [mbox EXCEPT ![NewMsgBox] = [pay |-> mbox[b].pay, view |-> view]]
              /\ IF view = "PointCloudData" /\ getPointsRGB_throws(kind[mbox[b].pay])
                   THEN /\ last_error' = ErrAsPointcloudPrefix \o ExcNoColor
                        /\ held' = held
                        /\ mcall' = [op |-> "as", src |-> b, view |-> view, ret |-> 0]
                   ELSE /\ last_error' = last_error
                        /\ held' = held \cup {NewMsgBox}
                        /\ mcall' = [op |-> "as", src |-> b, view |-> view, ret |-> NewMsgBox]
    /\ UNCHANGED <<payload, kind, queue, qclosed, arr, wpc, devVars, linkVars, cbVars>>

\* dai_datatype_release, and dai_frame_release, dai_encoded_frame_release,
\* dai_buffer_release, ... for the typed boxes: `delete ptr`.
dai_datatype_release(b) ==
    /\ b \in held
    /\ mbox' = [mbox EXCEPT ![b] = NoBox]
    /\ held' = held \ {b}
    /\ payload' = Reclaim(mbox', queue)
    /\ mcall' = [op |-> "release", src |-> b, pay |-> mbox[b].pay]
    /\ UNCHANGED <<last_error, kind, queue, qclosed, arr, wpc, devVars, linkVars, cbVars>>

\* _dai_make_datatype_array(msgs): one box per message
_dai_make_datatype_array(msgs) == AllocBoxes(FreeMsgBoxes, Len(msgs))

\* tryGetAll() / getAll(): every message of the queue goes into the array
\* that is returned, or the call fails on a closed queue.
DrainIntoArray(op, errPrefix) ==
    /\ ~arr.live
    /\ IF qclosed
         THEN /\ last_error' = errPrefix \o ExcQueueClosed
              /\ mcall' = [op |-> op, ret |-> 0]
              /\ UNCHANGED <<queue, mbox, arr>>
         ELSE /\ Cardinality(FreeMsgBoxes) >= Len(queue)
              /\ LET elems == _dai_make_datatype_array(queue)
                 IN /\ mbox' = [b \in MBoxes |->
                                  IF \E k \in 1..Len(elems) : elems[k] = b
                                    THEN [pay |-> queue[CHOOSE k \in 1..Len(elems) : elems[k] = b], view |-> "ADatatype"]
                                    ELSE mbox[b]]
                    /\ arr' = [live |-> TRUE, elems |-> elems]
              /\ queue' = <<>>
              /\ mcall' = [op |-> op, ret |-> 1]
              /\ last_error' = last_error
    /\ UNCHANGED <<payload, kind, qclosed, held, wpc, devVars, linkVars, cbVars>>

dai_queue_try_get_all == DrainIntoArray("try_get_all", ErrTryGetAllPrefix)

\* getAll() returns when a message has arrived or the queue was closed;
\* getAll(timeout, timedOut) also when the timeout expired.
dai_queue_get_all(timeout_ms) ==
    /\ Blocks(timeout_ms) => (qclosed \/ queue # <<>>)
    /\ DrainIntoArray("get_all", ErrGetAllPrefix)

\* ptr->elems[index] = nullptr
TakeSlot_Keep(elems, k) == elems
TakeSlot(elems, k) == [elems EXCEPT ![k] = 0]

\* dai_datatype_array_take(arr, index), index counted from 0
dai_datatype_array_take(index) ==
    /\ arr.live
    /\ IF index >= Len(arr.elems)
         THEN /\ last_error' = ErrTakeBounds
              /\ mcall' = [op |-> "take", index |-> index, ret |-> 0]
              /\ UNCHANGED <<arr, held>>
         ELSE /\ arr' = [arr EXCEPT !.elems = TakeSlot(arr.elems, index + 1)]
              /\ held' = held \cup ({arr.elems[index + 1]} \ {0})
              /\ mcall' = [op |-> "take", index |-> index, ret |-> arr.elems[index + 1]]
              /\ last_error' = last_error
    /\ UNCHANGED <<payload, kind, queue, qclosed, mbox, wpc, devVars, linkVars, cbVars>>

dai_datatype_array_free ==
    /\ arr.live
    /\ mbox' = [b \in MBoxes |-> IF \E k \in 1..Len(arr.elems) : arr.elems[k] = b THEN NoBox ELSE mbox[b]]
    /\ arr' = NoArray
    /\ payload' = Reclaim(mbox', queue)
    /\ mcall' = [op |-> "array_free"]
    /\ UNCHANGED <<last_error, kind, queue, qclosed, held, wpc, devVars, linkVars, cbVars>>

InitMsg ==
    /\ last_error = ""
    /\ box = [b \in Boxes |-> 0]
    /\ devState = [d \in Devs |-> "none"]
    /\ g_default_device = 0
    /\ g_device_mutex = 0
    /\ attached = [free |-> 0, busy |-> 0]
    /\ pc = [t \in Threads |-> "idle"]
    /\ arg = [t \in Threads |-> 0]
    /\ existing = [t \in Threads |-> 0]
    /\ exc = [t \in Threads |-> ""]
    /\ ret = [t \in Threads |-> 0]
    /\ seen = [t \in Threads |-> Unread]
    /\ lastOp = [t \in Threads |-> "none"]
    /\ outs = NoGraph
    /\ ins = NoGraph
    /\ children = NoGraph
    /\ compat = {}
    /\ conns = {}
    /\ call = NoCall
    /\ IdleQueue
    /\ IdleCallbacks

NextMsg ==
    \/ \E k \in Kinds : MessageQueue_push(k)
    \/ \E t \in {x \in Timeouts : ~Blocks(x)} : dai_queue_get(t)
    \/ dai_queue_try_get
    \/ \E b \in MBoxes \cup {0} : dai_datatype_clone(b)
    \/ \E b \in MBoxes : \E v \in Views : dai_datatype_as(b, v)
    \/ \E b \in MBoxes : dai_datatype_release(b)

NextGet ==
    \/ \E k \in Kinds : MessageQueue_push(k)
    \/ \E t \in Timeouts : dai_queue_get(t)
    \/ dai_queue_get_wake
    \/ dai_queue_try_get
    \/ dai_queue_close
    \/ \E b \in MBoxes : dai_datatype_release(b)

NextArr ==
    \/ \E k \in Kinds : MessageQueue_push(k)
    \/ dai_queue_close
    \/ dai_queue_try_get_all
    \/ \E t \in Timeouts : dai_queue_get_all(t)
    \/ \E i \in 0..MaxQueue : dai_datatype_array_take(i)
    \/ dai_datatype_array_free
    \/ \E b \in MBoxes : dai_datatype_release(b)
SpecMsg == InitMsg /\ [][NextMsg]_vars
\* The scheduler runs a thread whose wait has ended.
SpecGet == InitMsg /\ [][NextGet]_vars
SpecGetFair == SpecGet /\ WF_vars(dai_queue_get_wake)
SpecArr == InitMsg /\ [][NextArr]_vars

\* ------------------------------------------------------------ message boxes
\* C12: a call that creates a handle (dai_queue_get, dai_queue_try_get,
\* dai_datatype_clone, a typed extraction) allocates exactly one box, one that
\* was not allocated before, and touches no other box; a release deallocates
\* the box it is given and no other; every allocated box points at a payload
\* that is alive, and a payload is destroyed only by the release of a box
\* that pointed at it, when no box points at it any more.
C12_OneBoxPerHandle ==
    /\ [](\A b \in LiveMsgBoxes : payload[mbox[b].pay] = "alive")
    /\ [][(mcall'.op \in {"get", "try_get", "clone", "as"} /\ mcall'.ret # 0) =>
            /\ mcall'.ret \notin LiveMsgBoxes
            /\ LiveMsgBoxes' = LiveMsgBoxes \cup {mcall'.ret}
            /\ \A b \in LiveMsgBoxes : mbox'[b] = mbox[b]
            /\ payload' = payload]_vars
    /\ [][mcall'.op = "release" =>
            /\ LiveMsgBoxes' = LiveMsgBoxes \ {mcall'.src}
            /\ \A b \in LiveMsgBoxes' : mbox'[b] = mbox[b]]_vars
    /\ [][\A p \in Payloads : (payload[p] = "alive" /\ payload'[p] = "freed") =>
            /\ mcall'.op = "release"
            /\ mcall'.pay = p
            /\ \A b \in MBoxes : mbox'[b].pay # p]_vars
\* One of two boxes on a payload has been released and the payload lives on.
C12_Witness ==
    /\ mcall.op = "release"
    /\ payload[mcall.pay] = "alive"
    /\ \E b \in held : mbox[b].pay = mcall.pay
    /\ \E p \in Payloads : payload[p] = "freed"

\* C13: a typed extraction leaves the generic handle it is given allocated,
\* held by the caller and on the same message; when the dynamic type does not
\* match it returns null and leaves the error channel as it was; when it
\* matches it returns a new box of the caller on the same message.
C13_ExtractionKeepsSource ==
    [][mcall'.op = "as" =>
         LET src == mcall'.src
             matches == IsA(kind[mbox[src].pay], mcall'.view)
         IN /\ src \in held' /\ mbox'[src] = mbox[src]
            /\ ~matches => (mcall'.ret = 0 /\ last_error' = last_error /\ mbox' = mbox)
            /\ matches => /\ mcall'.ret \in held' \ held
                          /\ mcall'.ret # src
                          /\ mbox'[mcall'.ret].pay = mbox[src].pay]_vars

\* ------------------------------------------------------------- queue reads
\* C14: dai_queue_get with timeout_ms >= 0 on an open queue that holds no
\* message does not stay inside the call: it returns null, removes nothing
\* from the queue, allocates nothing and leaves the error channel as it was.
C14_TimeoutIsNotAnError ==
    [][(mcall'.op \in {"get", "get_wait"} /\ mcall'.timeout >= 0 /\ queue = <<>> /\ ~qclosed) =>
         /\ mcall'.op = "get" /\ mcall'.ret = 0
         /\ wpc' = "idle"
         /\ queue' = queue
         /\ mbox' = mbox
         /\ last_error' = last_error]_vars
\* A timed get has returned null on the open empty queue after an earlier
\* message was read, and no error is recorded.
C14_Witness ==
    /\ mcall = [op |-> "get", timeout |-> 0, ret |-> 0]
    /\ queue = <<>> /\ ~qclosed /\ wpc = "idle"
    /\ held # {}
    /\ last_error = ""

\* C15: a dai_queue_get with a negative timeout that waits on the empty queue
\* returns once the queue is closed, and what it returns is null.
C15_CloseUnblocksGet ==
    (wpc = "waiting" /\ qclosed) ~> (wpc = "idle" /\ mcall.op = "get" /\ mcall.timeout < 0 /\ mcall.ret = 0)
\* dai_queue_close has just run while a dai_queue_get waits on the empty queue.
C15_Witness == wpc = "waiting" /\ qclosed /\ queue = <<>> /\ mcall.op = "close"

\* ----------------------------------------------------------- message arrays
ArrayElems == {arr.elems[k] : k \in 1..Len(arr.elems)} \ {0}

\* C17: every box of an array is owned either by the array or by the caller
\* who took it, never by both; dai_datatype_array_take hands out the box of
\* its slot and empties the slot, so that a second take of the index returns
\* null; dai_datatype_array_free deallocates the boxes still in the array and
\* none that was taken.
C17_ArrayOwnership ==
    /\ [](/\ held \cap ArrayElems = {}
          /\ LiveMsgBoxes = held \cup ArrayElems
          /\ \A j, k \in 1..Len(arr.elems) : (j # k /\ arr.elems[j] # 0) => arr.elems[j] # arr.elems[k])
    /\ [][(mcall'.op = "take" /\ mcall'.index < Len(arr.elems)) =>
            /\ mcall'.ret = arr.elems[mcall'.index + 1]
            /\ arr'.elems[mcall'.index + 1] = 0
            /\ \A k \in 1..Len(arr.elems) : k # mcall'.index + 1 => arr'.elems[k] = arr.elems[k]
            /\ held' = held \cup ({mcall'.ret} \ {0})
            /\ mbox' = mbox]_vars
    /\ [][mcall'.op = "array_free" =>
            /\ LiveMsgBoxes' = LiveMsgBoxes \ ArrayElems
            /\ held' = held
            /\ \A b \in held : mbox'[b] = mbox[b] /\ payload'[mbox[b].pay] = "alive"]_vars
\* The second take of an index returned null while the box taken first is
\* the caller's and another element is still in the array.
C17_Witness ==
    /\ arr.live /\ mcall.op = "take" /\ mcall.index < Len(arr.elems) /\ mcall.ret = 0
    /\ held # {} /\ ArrayElems # {}

\* ---------------------------------------------------- callbacks and lifetime
ErrAddCallbackNullQueue == "dai_queue_add_callback: null queue"
ErrAddCallbackPrefix == "dai_queue_add_callback failed: "
BadAlloc == "std::bad_alloc"
ErrAddCallbackNull == "dai_queue_add_callback: null callback"
ErrCreateNodePrefix == "dai_pipeline_create_node_by_name: unknown node name: "
NodeNames == {"dai::node::Camera", "NoSuchNode"}
\* get_node_registry().find(name) != registry.end()
Registered(name) == name = "dai::node::Camera"

\* ~_DaiQueueCallbackState: if(drop) drop(ctx)
DropRuns_Never(r) == FALSE
DropRuns(r) == r.drop

\* The std::function holding the last reference to the state is destroyed.
Discard(ids) ==
    /\ regs' = [id \in CbIds |-> IF id \in ids THEN [regs[id] EXCEPT !.st = "discarded"] ELSE regs[id]]
    /\ drops' = [id \in CbIds |-> IF id \in ids /\ DropRuns(regs[id]) THEN drops[id] + 1 ELSE drops[id]]

\* ~MessageQueue once neither the handle box nor the output refers to it:
\* its callbacks and the messages it still holds go with it.
DestroyQueueIf(gone) ==
    IF gone
      THEN /\ Discard(ActiveCallbacks)
           /\ queue' = <<>>
           /\ payload' = Reclaim(mbox, <<>>)
      ELSE UNCHANGED <<regs, drops, queue, payload>>

\* The queue argument is the handle the caller holds or nullptr; addCallback
\* registers the callback or throws (std::bad_alloc), and the exception
\* unwinds the local `state`, whose destructor runs drop(ctx).
dai_queue_add_callback(has_cb, has_drop) ==
    /\ \E has_queue \in (IF qhandle THEN {TRUE} ELSE {}) \cup {FALSE} : \E throws \in BOOLEAN :
         IF ~has_queue
           THEN /\ ~throws
                /\ last_error' = ErrAddCallbackNullQueue
                /\ mcall' = [op |-> "add_callback", ret |-> -1, dropped |-> FALSE]
                /\ UNCHANGED <<regs, nextCbId>>
         ELSE IF ~has_cb
           THEN /\ ~throws
                /\ last_error' = ErrAddCallbackNull
                /\ mcall' = [op |-> "add_callback", ret |-> -1, dropped |-> FALSE]
                /\ UNCHANGED <<regs, nextCbId>>
         ELSE IF throws
           THEN /\ last_error' = ErrAddCallbackPrefix \o BadAlloc
                /\ mcall' = [op |-> "add_callback", ret |-> -1, dropped |-> DropRuns([st |-> "none", drop |-> has_drop])]
                /\ UNCHANGED <<regs, nextCbId>>
           ELSE /\ nextCbId < MaxCallbacks
                /\ regs' = [regs EXCEPT ![nextCbId] = [st |-> "active", drop |-> has_drop]]
                /\ nextCbId' = nextCbId + 1
                /\ mcall' = [op |-> "add_callback", ret |-> nextCbId, dropped |-> FALSE]
                /\ last_error' = last_error
    /\ UNCHANGED <<drops, qhandle, pipeline, numNodes, defaultDevice, payload, kind, queue, qclosed, mbox, held, arr, wpc, devVars, linkVars>>

\* removeCallback(id): false when the map has no such id
dai_queue_remove_callback(callback_id) ==
    /\ qhandle
    /\ IF callback_id \in ActiveCallbacks
         THEN /\ Discard({callback_id})
              /\ mcall' = [op |-> "remove_callback", id |-> callback_id, ret |-> 1]
         ELSE /\ mcall' = [op |-> "remove_callback", id |-> callback_id, ret |-> 0]
              /\ UNCHANGED <<regs, drops>>
    /\ UNCHANGED <<last_error, nextCbId, qhandle, pipeline, numNodes, defaultDevice, payload, kind, queue, qclosed, mbox, held, arr, wpc, devVars, linkVars>>

\* delete ptr: the caller's reference to the queue goes away
dai_queue_delete ==
    /\ qhandle
    /\ wpc = "idle"
    /\ qhandle' = FALSE
    /\ DestroyQueueIf(~pipeline)
    /\ mcall' = [op |-> "queue_delete"]
    /\ UNCHANGED <<last_error, nextCbId, pipeline, numNodes, defaultDevice, kind, qclosed, mbox, held, arr, wpc, devVars, linkVars>>

\* delete pipe: the nodes, their outputs and the outputs' references to
\* their queues go away
\* their queues go away, and so does the pipeline's reference to its device
dai_pipeline_delete ==
    /\ pipeline
    /\ pipeline' = FALSE
    /\ numNodes' = 0
    /\ defaultDevice' = 0
    /\ LET gone == defaultDevice # 0 /\ use_count(defaultDevice) = 1
       IN /\ devState' = [d \in Devs |-> IF gone /\ d = defaultDevice THEN "none" ELSE devState[d]]
          /\ g_default_device' = IF gone /\ g_default_device = defaultDevice THEN 0 ELSE g_default_device
    /\ DestroyQueueIf(~qhandle)
    /\ mcall' = [op |-> "pipeline_delete"]
    /\ UNCHANGED <<last_error, nextCbId, qhandle, kind, qclosed, mbox, held, arr, wpc, linkVars,
                   box, g_device_mutex, attached, pc, arg, existing, exc, ret, seen, lastOp>>

\* The handle of node id is written id + 1; 0 is the null handle.
dai_pipeline_create_node_by_name(name) ==
    /\ pipeline
    /\ IF Registered(name)
         THEN /\ numNodes < MaxNodes
              /\ numNodes' = numNodes + 1
              /\ mcall' = [op |-> "create_node", ret |-> numNodes + 1]
              /\ last_error' = last_error
         ELSE /\ last_error' = ErrCreateNodePrefix \o name
              /\ mcall' = [op |-> "create_node", ret |-> 0]
              /\ numNodes' = numNodes
    /\ UNCHANGED <<regs, nextCbId, drops, qhandle, pipeline, defaultDevice, msgVarsButCall, devVars, linkVars>>

\* dai_clear_last_error(); auto n = pipe->getNode(id); if(!n) return nullptr
dai_pipeline_get_node_by_id(id) ==
    /\ pipeline
    /\ last_error' = ""
    /\ mcall' = [op |-> "node_by_id", id |-> id, ret |-> IF id \in 0..(numNodes - 1) THEN id + 1 ELSE 0]
    /\ UNCHANGED <<cbVars, msgVarsButCall, devVars, linkVars>>

NextCb ==
    \/ \E c, d \in BOOLEAN : dai_queue_add_callback(c, d)
    \/ \E id \in CbIds : dai_queue_remove_callback(id)
    \/ \E k \in {x \in Kinds : x.type = "ImgFrame"} : MessageQueue_push(k)
    \/ \E b \in MBoxes : dai_datatype_release(b)
    \/ dai_queue_delete
    \/ dai_pipeline_delete
SpecCb == InitMsg /\ [][NextCb]_vars

NextErr ==
    \/ \E n \in NodeNames : dai_pipeline_create_node_by_name(n)
    \/ \E id \in 0..MaxNodes : dai_pipeline_get_node_by_id(id)
    \/ \E c, d \in BOOLEAN : dai_queue_add_callback(c, d)
    \/ \E id \in CbIds : dai_queue_remove_callback(id)
    \/ dai_datatype_clone(0)
    \/ dai_pipeline_delete
SpecErr == InitMsg /\ [][NextErr]_vars

\* C16: drop(ctx) of a registration made with a drop callback has run once
\* when the registration is discarded and not at all before; it runs in the
\* step that discards the registration (dai_queue_remove_callback, or the
\* release of the last reference to the queue), never for a registration
\* whose callback is still invoked, and a discarded registration stays so.
C16_DropOnceAtDiscard ==
    /\ [](\A id \in CbIds :
            /\ drops[id] <= 1
            /\ regs[id].st = "active" => drops[id] = 0
            /\ (regs[id].st = "discarded" /\ regs[id].drop) => drops[id] = 1
            /\ ~regs[id].drop => drops[id] = 0)
    /\ [][\A id \in CbIds : drops'[id] # drops[id] =>
            /\ regs[id].st = "active" /\ regs'[id].st = "discarded"
            /\ mcall'.op \in {"remove_callback", "queue_delete", "pipeline_delete"}]_vars
    /\ [][mcall'.op = "push" => \A id \in mcall'.called : drops[id] = 0 /\ drops'[id] = 0]_vars
    /\ [][\A id \in CbIds : regs[id].st = "discarded" => regs'[id] = regs[id]]_vars
\* Two registrations with a drop callback received a message; one was removed
\* by dai_queue_remove_callback, the other went with the queue, whose last
\* reference has just been released: each drop has run once.
C16_Witness ==
    /\ mcall.op \in {"queue_delete", "pipeline_delete"}
    /\ ~qhandle /\ ~pipeline
    /\ \A id \in {0, 1} : regs[id] = [st |-> "discarded", drop |-> TRUE] /\ drops[id] = 1
    /\ Cardinality(held) >= 2

\* ------------------------------------------------------------ error report
\* C18: a call that returns its failure sentinel (a null handle from
\* dai_pipeline_get_node_by_id, dai_pipeline_create_node_by_name or
\* dai_datatype_clone, -1 from dai_queue_add_callback) leaves a non-empty
\* message in the error channel.
C18_FailureLeavesMessage ==
    [][((mcall'.op \in {"node_by_id", "create_node", "clone"} /\ mcall'.ret = 0)
        \/ (mcall'.op = "add_callback" /\ mcall'.ret = -1))
         => last_error' # ""]_vars

\* ------------------------------------------------------------ pair selection
\* Outputs of one name with and without a group: with the inputs of
\* InUniverse two different pairs can reach the same combined score.
TieOutUniverse == {[name |-> "video", group |-> ""], [name |-> "video", group |-> "g"]}
GroupOnlyFilters == {f \in Filters : f.on = NULL /\ f.in = NULL}

InitTie ==
    /\ last_error = ""
    /\ box = [b \in Boxes |-> 0]
    /\ devState = [d \in Devs |-> "none"]
    /\ g_default_device = 0
    /\ g_device_mutex = 0
    /\ attached = [free |-> 0, busy |-> 0]
    /\ pc = [t \in Threads |-> "idle"]
    /\ arg = [t \in Threads |-> 0]
    /\ existing = [t \in Threads |-> 0]
    /\ exc = [t \in Threads |-> ""]
    /\ ret = [t \in Threads |-> 0]
    /\ seen = [t \in Threads |-> Unread]
    /\ lastOp = [t \in Threads |-> "none"]
    /\ outs \in PortLists(TieOutUniverse)
    /\ ins \in PortLists(InUniverse)
    /\ children = NoGraph
    /\ compat \in SUBSET ((1..Len(outs)) \X (1..Len(ins)))
    /\ conns = {}
    /\ call = NoCall
    /\ IdleQueue
    /\ IdleCallbacks

NextTie ==
    \/ \E f \in GroupOnlyFilters : dai_node_link(f)
    \/ \E f \in GroupOnlyFilters : dai_node_unlink(f)
SpecTie == InitTie /\ [][NextTie]_vars

\* Combined score of a pair and its place in the iteration, outputs in the
\* outer loop and inputs in the inner loop.
PairScore(p) ==
    _dai_score_port_name(outs[p[1]].name, TRUE) + Add(outs[p[1]].group = "", 2)
    + _dai_score_port_name(ins[p[2]].name, FALSE) + Add(ins[p[2]].group = "", 2)
PairRank(p) == (p[1] - 1) * Len(ins) + p[2]
Feasible(f) == CandidatePairs(f) \cap compat

\* C21: dai_node_link with no names resolves a pair exactly when some
\* candidate pair is compatible; the pair it resolves is a compatible
\* candidate, no compatible candidate has a higher combined score, and those
\* with the same score come later in the iteration.
C21_BestPairFirstFound ==
    (call.op = "link" /\ call.f.on = NULL /\ call.f.in = NULL) =>
        /\ (call.sel = NoPair) <=> (Feasible(call.f) = {})
        /\ call.sel # NoPair =>
              /\ call.sel \in Feasible(call.f)
              /\ \A q \in Feasible(call.f) :
                    /\ PairScore(q) <= PairScore(call.sel)
                    /\ PairScore(q) = PairScore(call.sel) => PairRank(call.sel) <= PairRank(q)
\* The pair linked has the score of another compatible candidate that comes
\* later in the iteration, and a third candidate scores lower.
C21_Witness ==
    /\ call.op = "link" /\ call.ok /\ call.f = NoFilters
    /\ \E q \in Feasible(call.f) : q # call.sel /\ PairScore(q) = PairScore(call.sel)
    /\ \E q \in Feasible(call.f) : PairScore(q) < PairScore(call.sel)

\* ---------------------------------------------------------- port-name score
\* Port names: a stem, followed or not by one of the keywords the score
\* function looks for.
NameStems == {"", "video", "preview", "isp", "depth", "rgbd", "pcl", "x"}
Keywords == {"raw", "meta", "metadata", "control", "passthrough", "inSync"}
OutputKeywords == Keywords \ {"inSync"}

\* _dai_score_port_name is applied to a name with and without the keyword.
ScorePort(stem, kw, isOutput) ==
    /\ call' = [op |-> "score", stem |-> stem, kw |-> kw, isOutput |-> isOutput,
                score |-> _dai_score_port_name(stem \o kw, isOutput),
                without |-> _dai_score_port_name(stem, isOutput)]
    /\ UNCHANGED <<last_error, outs, ins, children, compat, conns, devVars, msgVars, cbVars>>

NextScore == \E stem \in NameStems : \E kw \in Keywords \cup {""} : \E isOutput \in BOOLEAN : ScorePort(stem, kw, isOutput)
SpecScore == InitMsg /\ [][NextScore]_vars

\* Keywords of the list that the keyword kw itself contains ("metadata" contains "meta").
Contained(kw) == Cardinality({k \in Keywords : has(kw, k)})

\* C22: an output name that contains raw, meta, metadata, control or
\* passthrough, and an input name that contains inSync, scores lower than the
\* same name without the keyword, by 10 to 30 for each keyword contained.
C22_KeywordsLowerScore ==
    (/\ call.op = "score"
     /\ \/ (call.isOutput /\ call.kw \in OutputKeywords)
        \/ (~call.isOutput /\ call.kw = "inSync")) =>
        /\ call.score - call.without <= -10
        /\ call.score - call.without >= -30 * Contained(call.kw)

\* -------------------------------------------------------- unlink and groups
\* C23: when dai_node_unlink searches the realized connections (a name is
\* missing) and removes one, no connection that matches the filters has a
\* higher combined score, counted as dai_node_link counts it (name scores
\* plus 2 for each ungrouped port).
C23_UnlinkScoresAsLink ==
    [][(call'.op = "unlink" /\ call'.ok /\ (call'.f.on = NULL \/ call'.f.in = NULL)) =>
         \A q \in UnlinkCandidates(call'.f, IF call'.f.on = NULL THEN NoPort ELSE getOutputRef(call'.f.og, call'.f.on)) :
            PairScore(q) <= PairScore(call'.sel)]_vars

\* The group of the input with index i, an input of the destination itself or
\* of one of its children.
InputGroupAt(i) ==
    IF i <= Len(ins) THEN ins[i].group
    ELSE LET c == CHOOSE c \in 1..Len(children) : ChildBase(c) < i /\ i <= ChildBase(c + 1)
         IN children[c][i - ChildBase(c)].group

\* C24: when dai_node_link, dai_node_unlink or dai_output_link succeeds with
\* a group filter that is not null, the port of the connection it realizes or
\* removes belongs to exactly that group.
C24_GroupFiltersHonoured ==
    [][(call'.op \in {"link", "unlink", "output_link"} /\ call'.ok) =>
         /\ call'.f.og # NULL => outs[call'.sel[1]].group = call'.f.og
         /\ call'.f.ig # NULL => InputGroupAt(call'.sel[2]) = call'.f.ig]_vars

\* --------------------------------------------------------- device selection
MaxListed == 2      \* physical devices the host enumerates

\* const XLinkDeviceState_t states[] of select_first_device_info, in order.
XLinkStates_BootedFirst ==
    <<"X_LINK_BOOTED", "X_LINK_GATE_SETUP", "X_LINK_GATE", "X_LINK_FLASH_BOOTED", "X_LINK_BOOTLOADER", "X_LINK_UNBOOTED">>
XLinkStates ==
    <<"X_LINK_UNBOOTED", "X_LINK_BOOTLOADER", "X_LINK_FLASH_BOOTED", "X_LINK_GATE", "X_LINK_GATE_SETUP", "X_LINK_BOOTED">>
StateNames == {XLinkStates[k] : k \in 1..Len(XLinkStates)}

Throws == "throws"  \* the enumeration of one state raised an exception
NoInfo == 0         \* select_first_device_info returned false
NoFailure == "none"

\* What the host reports: where[i] is the state physical device i is in, and
\* fails is the state whose enumeration throws (NoFailure: none does).
Hosts == [where : UNION {[1..n -> StateNames] : n \in 0..MaxListed}, fails : StateNames \cup {NoFailure}]

\* The state after construction, on a host of any shape.
InitSelect ==
    /\ last_error = ""
    /\ box = [b \in Boxes |-> 0]
    /\ devState = [d \in Devs |-> "none"]
    /\ g_default_device = 0
    /\ g_device_mutex = 0
    /\ \E h \in Hosts : attached = [free |-> Len(h.where), busy |-> 0, where |-> h.where, fails |-> h.fails]
    /\ pc = [t \in Threads |-> "idle"]
    /\ arg = [t \in Threads |-> 0]
    /\ existing = [t \in Threads |-> 0]
    /\ exc = [t \in Threads |-> ""]
    /\ ret = [t \in Threads |-> 0]
    /\ seen = [t \in Threads |-> Unread]
    /\ lastOp = [t \in Threads |-> "none"]
    /\ outs = NoGraph
    /\ ins = NoGraph
    /\ children = NoGraph
    /\ compat = {}
    /\ conns = {}
    /\ call = NoCall
    /\ IdleQueue
    /\ IdleCallbacks

\* dai::XLinkConnection::getAllConnectedDevices(state, true) on host h.
getAllConnectedDevices(h, state) ==
    IF h.fails = state THEN Throws
    ELSE SelectSeq([i \in 1..Len(h.where) |-> i], LAMBDA i : h.where[i] = state)

\* The loop of select_first_device_info from the k-th state on: the front of
\* the first enumeration that neither throws nor is empty.
RECURSIVE select_from(_, _)
select_from(h, k) ==
    IF k > Len(XLinkStates) THEN NoInfo
    ELSE LET devices == getAllConnectedDevices(h, XLinkStates[k])
         IN IF devices # Throws /\ devices # <<>> THEN Head(devices) ELSE select_from(h, k + 1)
select_first_device_info_on(h) == select_from(h, 1)

\* dai_device_new called from thread t while no other call is running, on the
\* host that `attached` describes: the whole function.
dai_device_new_on(t) ==
    LET h == attached
        d == g_default_device
        reuse == d # 0 /\ use_count(d) > 0 /\ ReuseDefault(d)
        info == select_first_device_info_on(h)
    IN /\ \A u \in Threads : pc[u] = "idle"
       /\ g_device_mutex = 0
       /\ CanAllocate
       /\ IF reuse
            THEN /\ box' = [box EXCEPT ![NewBox] = d]
                 /\ ret' = [ret EXCEPT ![t] = NewBox]
                 /\ last_error' = ""
                 /\ call' = [op |-> "new", reused |-> TRUE, info |-> NoInfo, made |-> 0]
                 /\ UNCHANGED <<devState, g_default_device>>
            ELSE IF info # NoInfo
            THEN /\ \E e \in Devs : devState[e] = "none"
                 /\ devState' = [devState EXCEPT ![NewDev] = "open"]
                 /\ g_default_device' = NewDev
                 /\ box' = [box EXCEPT ![NewBox] = NewDev]
                 /\ ret' = [ret EXCEPT ![t] = NewBox]
                 /\ last_error' = ""
                 /\ call' = [op |-> "new", reused |-> FALSE, info |-> info, made |-> NewDev]
            ELSE /\ last_error' = ErrNewPrefix \o (IF numConnected > 0 THEN ErrInUse(numConnected) ELSE ErrNoDevices)
                 /\ ret' = [ret EXCEPT ![t] = 0]
                 /\ call' = [op |-> "new", reused |-> FALSE, info |-> NoInfo, made |-> 0]
                 /\ UNCHANGED <<box, devState, g_default_device>>
       /\ seen' = [seen EXCEPT ![t] = Unread]
       /\ lastOp' = [lastOp EXCEPT ![t] = "new"]
       /\ UNCHANGED <<g_device_mutex, attached, pc, arg, existing, exc, outs, ins, children, compat, conns, msgVars, cbVars>>

\* One thread creates and closes devices.
NextSelect ==
    \/ dai_device_new_on(1)
    \/ dai_device_close(1)
SpecSelect == InitSelect /\ [][NextSelect]_vars

Priority ==
    [s \in {"X_LINK_UNBOOTED", "X_LINK_BOOTLOADER", "X_LINK_FLASH_BOOTED", "X_LINK_GATE", "X_LINK_GATE_SETUP", "X_LINK_BOOTED"} |->
        CASE s = "X_LINK_UNBOOTED" -> 1 [] s = "X_LINK_BOOTLOADER" -> 2 [] s = "X_LINK_FLASH_BOOTED" -> 3
          [] s = "X_LINK_GATE" -> 4 [] s = "X_LINK_GATE_SETUP" -> 5 [] s = "X_LINK_BOOTED" -> 6]
\* Devices of host h that an enumeration which does not fail reports.
Listed(h) == {i \in 1..Len(h.where) : h.where[i] # h.fails}
\* The device the priority order puts first: lowest state, then lowest index.
Preferred(h) ==
    CHOOSE i \in Listed(h) : \A j \in Listed(h) :
        \/ Priority[h.where[i]] < Priority[h.where[j]]
        \/ (h.where[i] = h.where[j] /\ i <= j)

\* C25: a dai_device_new that finds no open default device constructs its
\* device from the first entry of the first non-empty enumeration in the
\* order UNBOOTED, BOOTLOADER, FLASH_BOOTED, GATE, GATE_SETUP, BOOTED, passing
\* over a state whose enumeration fails, and the device it constructs is the
\* default device when it returns; when every enumeration is empty or fails
\* it constructs nothing.
C25_FirstDeviceByStateOrder ==
    (call.op = "new" /\ ~call.reused /\ lastOp[1] = "new") =>
        IF Listed(attached) = {}
          THEN call.made = 0 /\ ret[1] = 0
          ELSE /\ call.info = Preferred(attached)
               /\ call.made # 0
               /\ g_default_device = call.made
               /\ devState[call.made] = "open"
               /\ ret[1] # 0 /\ box[ret[1]] = call.made

\* A device was constructed past a failing enumeration and ahead of a device in
\* a later state, while the previous default device is closed.
C25_Witness ==
    /\ call.op = "new" /\ ~call.reused /\ lastOp[1] = "new"
    /\ call.made = 2
    /\ devState[1] = "closed"
    /\ attached.fails = "X_LINK_UNBOOTED"
    /\ Len(attached.where) = 2
    /\ attached.where[1] = "X_LINK_BOOTED"
    /\ attached.where[2] = "X_LINK_GATE"
    /\ call.info = 2

\* ------------------------------------------------------ release that fails
\* Where dai_device_delete goes on after its catch(...): to `delete dev`.
AfterCatch_Return == "idle"
AfterCatch == "del_free"

\* (*dev)->isClosed() or (*dev)->close() throws inside dai_device_delete and
\* the catch(...) swallows it; a close that throws may or may not have closed
\* the device.
dai_device_delete_catch(t) ==
    /\ pc[t] \in {"del_isclosed", "del_close"}
    /\ \E after \in {devState[box[arg[t]]]} \cup (IF pc[t] = "del_close" THEN {"closed"} ELSE {}) :
          devState' = [devState EXCEPT ![box[arg[t]]] = after]
    /\ pc' = [pc EXCEPT ![t] = AfterCatch]
    /\ call' = [op |-> "delete", handle |-> arg[t], threw |-> pc[t]]
    /\ UNCHANGED <<last_error, box, g_default_device, g_device_mutex, attached, arg, existing, exc, ret, seen, lastOp,
                   outs, ins, children, compat, conns, msgVars, cbVars>>

\* Calls from one thread on a device whose isClosed() and close() can throw.
NextDelete ==
    \/ DevStep(1)
    \/ dai_device_delete_catch(1)
SpecDelete == InitDev /\ [][NextDelete]_vars

InDelete(p) == p \in {"del_isclosed", "del_close", "del_free"}

\* C26: with calls from one thread, a dai_device_delete on a handle leaves
\* the error channel as it found it and returns only after it has freed the
\* handle box, also when the is-closed query or the close of the
\* last-handle release fails; the box is still allocated when the failure
\* is swallowed.
C26_DeleteAlwaysFrees ==
    /\ [][(InDelete(pc[1]) \/ InDelete(pc'[1])) => last_error' = last_error]_vars
    /\ [][(InDelete(pc[1]) /\ ~InDelete(pc'[1])) =>
            /\ pc[1] = "del_free"
            /\ box[arg[1]] # 0
            /\ box'[arg[1]] = 0]_vars
    /\ [][(call'.op = "delete" /\ call' # call) => box'[call'.handle] # 0]_vars

\* A release whose close failed has returned: the box is free, the error
\* channel holds what an earlier failed call left there.
C26_Witness ==
    /\ call.op = "delete"
    /\ call.threw = "del_close"
    /\ pc[1] = "idle"
    /\ lastOp[1] = "delete"
    /\ box[call.handle] = 0
    /\ last_error = ErrCloneNull

\* ------------------------------------------------------ concurrent callers
\* C27: when two threads release handles of one device with dai_device_delete
\* and no dai_device_new holds a reference to it, the device is closed by the
\* time the delete that frees its last handle box frees it.
C27_ClosedBeforeLastFree ==
    [][\A t \in Threads :
          (/\ dai_device_delete_free(t)
           /\ BoxesOf(box[arg[t]]) = {arg[t]}
           /\ \A u \in Threads : existing[u] = 0
           /\ \A u \in Threads : lastOp[u] = "delete")
             => devState[box[arg[t]]] = "closed"]_vars

\* Threads that only call dai_device_new.
NextNew ==
    \E t \in Threads :
       \/ dai_device_new_clear(t)
       \/ dai_device_new_lock(t)
       \/ dai_device_new_weak(t)
       \/ dai_device_new_reuse(t)
       \/ dai_device_new_create(t)
       \/ dai_device_new_catch(t)
       \/ dai_get_last_error(t)
SpecNew == InitDev /\ [][NextNew]_vars

InCriticalSection == {t \in Threads : pc[t] \in {"new_crit", "new_check", "new_create"}}

\* C28: with one attachable device and only dai_device_new calls issued from
\* two threads, at most one call is between the lookup of the default slot
\* and its update, at most one device is ever constructed, no call fails,
\* and every handle returned refers to that one open default device.
C28_OneDeviceForBoth ==
    attached.free = 1 =>
        /\ Cardinality(InCriticalSection) <= 1
        /\ Cardinality({d \in Devs : devState[d] # "none"}) <= 1
        /\ \A t \in Threads : pc[t] \notin {"new_fail", "new_null"}
        /\ \A t \in Threads : (pc[t] = "idle" /\ lastOp[t] = "new") =>
              /\ ret[t] # 0
              /\ box[ret[t]] = g_default_device
              /\ devState[box[ret[t]]] = "open"
        /\ \A b \in LiveBoxes : box[b] = g_default_device

\* Both threads have returned from their first dai_device_new, with two boxes
\* on one device.
C28_Witness ==
    /\ attached.free = 1
    /\ \A t \in Threads : pc[t] = "idle" /\ lastOp[t] = "new" /\ ret[t] # 0
    /\ ret[1] # ret[2]
    /\ box[ret[1]] = box[ret[2]]
    /\ Cardinality(LiveBoxes) = 2

\* ------------------------------------------------------ pipeline and device
ErrPipelineNullDevice == "dai_pipeline_new_with_device: null device"
ErrDefaultDeviceNullPipeline == "dai_pipeline_get_default_device: null pipeline"
ErrNoDefaultDevice == "dai_pipeline_get_default_device: pipeline has no default device"

\* new dai::Pipeline(*dev): the pipeline copies the shared_ptr of the handle.
dai_pipeline_new_with_device(t) ==
    /\ pc[t] = "idle"
    /\ ~pipeline
    /\ \E h \in Usable \cup {0} :
         IF h = 0
           THEN /\ last_error' = ErrPipelineNullDevice
                /\ UNCHANGED <<pipeline, defaultDevice>>
           ELSE /\ last_error' = ""
                /\ pipeline' = TRUE
                /\ defaultDevice' = box[h]
    /\ ret' = [ret EXCEPT ![t] = 0]
    /\ seen' = [seen EXCEPT ![t] = Unread]
    /\ lastOp' = [lastOp EXCEPT ![t] = "pipeline_new_with_device"]
    /\ UNCHANGED <<box, devState, g_default_device, g_device_mutex, attached, pc, arg, existing, exc,
                   regs, nextCbId, drops, qhandle, numNodes, linkVars, msgVars>>

\* pipe->getDefaultDevice() boxed in a new std::shared_ptr<dai::Device>.
dai_pipeline_get_default_device(t) ==
    /\ pc[t] = "idle"
    /\ IF ~pipeline
         THEN /\ last_error' = ErrDefaultDeviceNullPipeline
              /\ ret' = [ret EXCEPT ![t] = 0]
              /\ box' = box
         ELSE IF defaultDevice = 0
         THEN /\ last_error' = ErrNoDefaultDevice
              /\ ret' = [ret EXCEPT ![t] = 0]
              /\ box' = box
         ELSE /\ CanAllocate
              /\ box' = [box EXCEPT ![NewBox] = defaultDevice]
              /\ ret' = [ret EXCEPT ![t] = NewBox]
              /\ last_error' = last_error
    /\ seen' = [seen EXCEPT ![t] = Unread]
    /\ lastOp' = [lastOp EXCEPT ![t] = "get_default_device"]
    /\ UNCHANGED <<devState, g_default_device, g_device_mutex, attached, pc, arg, existing, exc, linkVars, msgVars, cbVars>>

\* One thread works with device handles and a pipeline built on a device.
NextPipe ==
    \/ DevStep(1)
    \/ dai_pipeline_new_with_device(1)
    \/ dai_pipeline_get_default_device(1)
    \/ dai_pipeline_delete
SpecPipe == InitDev /\ [][NextPipe]_vars

HasDevice == pipeline /\ defaultDevice # 0

\* C29: while a pipeline built with dai_pipeline_new_with_device is alive, no
\* dai_device_delete changes the state of the pipeline's device, and reaches
\* its close() on no handle of it; the device stays open unless a
\* dai_device_close closes it; and a dai_pipeline_get_default_device returns
\* a fresh box on that device.
C29_PipelineKeepsDevice ==
    /\ [](HasDevice => devState[defaultDevice] # "none")
    /\ [](HasDevice /\ pc[1] \in {"del_isclosed", "del_close"} => box[arg[1]] # defaultDevice)
    /\ [][(HasDevice /\ HasDevice' /\ lastOp'[1] # "close") =>
            /\ defaultDevice' = defaultDevice
            /\ devState'[defaultDevice] = devState[defaultDevice]]_vars
    /\ [][(HasDevice /\ dai_pipeline_get_default_device(1)) =>
            /\ ret'[1] # 0
            /\ ret'[1] \notin LiveBoxes
            /\ box'[ret'[1]] = defaultDevice
            /\ devState'[defaultDevice] = devState[defaultDevice]]_vars

\* Every handle the caller had on the pipeline's device was released, the
\* device is still open, and dai_pipeline_get_default_device has returned the
\* only handle there is now.
C29_Witness ==
    /\ HasDevice
    /\ pc[1] = "idle"
    /\ lastOp[1] = "get_default_device"
    /\ ret[1] # 0
    /\ BoxesOf(defaultDevice) = {ret[1]}
    /\ devState[defaultDevice] = "open"

\* ------------------------------------------------------ failed registration
\* C30: a dai_queue_add_callback that returns -1 has not run drop(ctx): not
\* that of the registration it was asked to make, nor that of any other.
C30_FailedAddNeverDrops ==
    [][(mcall'.op = "add_callback" /\ mcall'.ret = -1 /\ mcall' # mcall) =>
         ~mcall'.dropped /\ drops' = drops]_vars

====
